---- MODULE Spec2Model ----
(***************************************************************************)
(* Verification Pack Generator (src/run.py): BM25Retriever.search,         *)
(* ClaimVerifier.verify_claim / _check_support / _is_contradiction and     *)
(* PackGenerator.generate_pack.                                            *)
(*                                                                         *)
(* Texts are TLA+ strings over printable ASCII without line breaks; the    *)
(* regular expressions of the source are evaluated character by character. *)
(* BM25 scores are integers in thousandths (3.0 is 3000); the scoring of   *)
(* rank_bm25.BM25Okapi is a library outside the repository and is an input *)
(* of the model: any score vector may come back from get_scores.           *)
(***************************************************************************)
EXTENDS Integers, Sequences, FiniteSets, TLC

VARIABLES
    pc,             \* position: which operation has run
    lines,          \* BM25Retriever.lines (= DocumentLoader.all_lines)
    question,       \* the question argument (the query argument of search)
    claims,         \* the claims argument of generate_pack; <<claim>> for one claim
    evidence,       \* the evidence argument of _check_support
    bm25,           \* BM25Retriever.bm25: query |-> get_scores(query), in thousandths
    qid,            \* the qid argument of generate_pack
    top_k,          \* the top_k argument of search
    output,         \* the value the operation returned
    trace           \* what the operation went through: the rule _check_support returned
                    \* from; per verified claim, what search returned and the ranks classified

vars == <<pc, lines, question, claims, evidence, bm25, qid, top_k, output, trace>>

NoValue == "<none>"

-----------------------------------------------------------------------------
(* Characters and str.lower().                                             *)

UpperAlpha == "ABCDEFGHIJKLMNOPQRSTUVWXYZ"
LowerAlpha == "abcdefghijklmnopqrstuvwxyz"
DigitChars == "0123456789"

Char(s, i) == SubSeq(s, i, i)

CharsOf(s) == {Char(s, i) : i \in 1..Len(s)}

UpperSet == CharsOf(UpperAlpha)
DigitSet == CharsOf(DigitChars)
WordSet  == CharsOf(UpperAlpha) \cup CharsOf(LowerAlpha) \cup CharsOf(DigitChars) \cup {"_"}
SpaceSet == {" ", "\t"}

LowerMap == [c \in UpperSet |->
               Char(LowerAlpha, CHOOSE i \in 1..Len(UpperAlpha) : Char(UpperAlpha, i) = c)]

LowerChar(c) == IF c \in UpperSet THEN LowerMap[c] ELSE c

RECURSIVE lower(_)
lower(s) == IF s = "" THEN "" ELSE LowerChar(Char(s, 1)) \o lower(SubSeq(s, 2, Len(s)))

\* \w, \d, \s at position i of s (FALSE outside the string)
IsWordAt(s, i)  == i >= 1 /\ i <= Len(s) /\ Char(s, i) \in WordSet
IsDigitAt(s, i) == i >= 1 /\ i <= Len(s) /\ Char(s, i) \in DigitSet
IsSpaceAt(s, i) == i >= 1 /\ i <= Len(s) /\ Char(s, i) \in SpaceSet

\* \b between positions i-1 and i
BoundaryAt(s, i) == IsWordAt(s, i - 1) # IsWordAt(s, i)

\* the literal lit occupies s[i .. i+Len(lit)-1]
LitAt(s, i, lit) == i >= 1 /\ i + Len(lit) - 1 <= Len(s) /\ SubSeq(s, i, i + Len(lit) - 1) = lit

\* Python's "lit in s"
Contains(s, lit) == \E i \in 1..(Len(s) + 1) : LitAt(s, i, lit)

\* re.search(r'\blit\b', s)
SearchWord(s, lit) ==
    \E i \in 1..Len(s) : LitAt(s, i, lit) /\ BoundaryAt(s, i) /\ BoundaryAt(s, i + Len(lit))

\* end of the maximal run of characters of class cls starting at i (i-1 when none)
RECURSIVE RunEnd(_, _, _)
RunEnd(s, i, cls) == IF i <= Len(s) /\ Char(s, i) \in cls THEN RunEnd(s, i + 1, cls) ELSE i - 1

\* re.findall(r'\w+', text), from position i on
RECURSIVE FindWords(_, _)
FindWords(s, i) ==
    IF i > Len(s) THEN <<>>
    ELSE IF IsWordAt(s, i)
         THEN LET e == RunEnd(s, i, WordSet) IN <<SubSeq(s, i, e)>> \o FindWords(s, e + 1)
         ELSE FindWords(s, i + 1)

_tokenize(text) == FindWords(lower(text), 1)

Range(seq) == {seq[i] : i \in 1..Len(seq)}

-----------------------------------------------------------------------------
(* ClaimVerifier._check_support and _is_contradiction.                     *)

NEGATION_WORDS == {"not", "never", "no", "cannot", "prohibited", "must not", "should not"}

\* the literals of prohibitive_patterns, each wrapped in \b ... \b
prohibitive_patterns == {"do not", "must not", "should not", "prohibited", "never", "cannot"}

\* "days?\b" at position b: the last position of the match, 0 when there is none
DaysEnd(s, b) ==
    IF ~LitAt(s, b, "day") THEN 0
    ELSE IF LitAt(s, b + 3, "s") /\ ~IsWordAt(s, b + 4) THEN b + 3
    ELSE IF ~IsWordAt(s, b + 3) THEN b + 2
    ELSE 0

\* r'\b(\d+)\s*(?:working\s+)?days?\b' matched at position i: [last, digits] or last = 0
DayMatch(s, i) ==
    IF ~(IsDigitAt(s, i) /\ BoundaryAt(s, i)) THEN [last |-> 0, digits |-> ""]
    ELSE LET d == RunEnd(s, i, DigitSet)
             a == RunEnd(s, d + 1, SpaceSet) + 1
             b == RunEnd(s, a + 7, SpaceSet) + 1
             viaWorking == IF LitAt(s, a, "working") /\ IsSpaceAt(s, a + 7)
                           THEN DaysEnd(s, b) ELSE 0
         IN  [last   |-> IF viaWorking > 0 THEN viaWorking ELSE DaysEnd(s, a),
              digits |-> SubSeq(s, i, d)]

\* re.findall(r'\b(\d+)\s*(?:working\s+)?days?\b', s), from position i on
RECURSIVE FindDays(_, _)
FindDays(s, i) ==
    IF i > Len(s) THEN <<>>
    ELSE LET m == DayMatch(s, i)
         IN  IF m.last > 0 THEN <<m.digits>> \o FindDays(s, m.last + 1)
             ELSE FindDays(s, i + 1)

\* re.search of a plain literal: <<>> for None, else <<match.group()>>
SearchLit(s, lit) == IF Contains(s, lit) THEN <<lit>> ELSE <<>>

\* w1\s+w2 matched at position i: the last position of the match, 0 when none
TwoWordsEnd(s, i, w1, w2) ==
    IF LitAt(s, i, w1) /\ IsSpaceAt(s, i + Len(w1))
    THEN LET a == RunEnd(s, i + Len(w1), SpaceSet) + 1
         IN  IF LitAt(s, a, w2) THEN a + Len(w2) - 1 ELSE 0
    ELSE 0

\* re.search(r'w1\s+w2', s): the leftmost match
SearchTwoWords(s, w1, w2) ==
    LET starts == {i \in 1..Len(s) : TwoWordsEnd(s, i, w1, w2) > 0}
    IN  IF starts = {} THEN <<>>
        ELSE LET i == CHOOSE j \in starts : \A k \in starts : j <= k
             IN  <<SubSeq(s, i, TwoWordsEnd(s, i, w1, w2))>>

\* r'must\s+be\s+submitted.*?(\d+)' matched at position i: last position, 0 when none
SubmittedEnd(s, i) ==
    LET e1 == TwoWordsEnd(s, i, "must", "be")
    IN  IF e1 = 0 \/ ~IsSpaceAt(s, e1 + 1) THEN 0
        ELSE LET b == RunEnd(s, e1 + 1, SpaceSet) + 1
                 digs == {p \in (b + 9)..Len(s) : IsDigitAt(s, p)}
             IN  IF ~LitAt(s, b, "submitted") \/ digs = {} THEN 0
                 ELSE RunEnd(s, CHOOSE p \in digs : \A q \in digs : p <= q, DigitSet)

\* re.search(r'must\s+be\s+submitted.*?(\d+)', s)
SearchSubmitted(s) ==
    LET starts == {i \in 1..Len(s) : SubmittedEnd(s, i) > 0}
    IN  IF starts = {} THEN <<>>
        ELSE LET i == CHOOSE j \in starts : \A k \in starts : j <= k
             IN  <<SubSeq(s, i, SubmittedEnd(s, i))>>

\* contradiction_pairs: for each pair, (claim_match, evidence_match)
contradiction_pairs(claim, evid) ==
    << <<SearchSubmitted(claim),             SearchSubmitted(evid)>>,
       <<SearchLit(claim, "allowed"),        SearchLit(evid, "prohibited")>>,
       <<SearchLit(claim, "required"),       SearchLit(evid, "not required")>>,
       <<SearchTwoWords(claim, "can", "be"), SearchTwoWords(evid, "cannot", "be")>> >>

_is_contradiction(claim, evid) ==
    LET pairs == contradiction_pairs(claim, evid)
    IN  \E k \in 1..Len(pairs) :
            /\ pairs[k][1] # <<>>
            /\ pairs[k][2] # <<>>
            /\ pairs[k][1][1] # pairs[k][2][1]

\* OverlapAtLeast without the guard for an empty set of claim terms
OverlapAtLeast_unguarded(overlap, claim_terms, tenths) ==
    10 * Cardinality(overlap) >= tenths * Cardinality(claim_terms)

\* len(overlap) / len(claim_terms) >= tenths / 10, the ratio being 0 for no claim terms
OverlapAtLeast(overlap, claim_terms, tenths) ==
    /\ claim_terms # {}
    /\ 10 * Cardinality(overlap) >= tenths * Cardinality(claim_terms)

has_negation(text_lower) == \E neg \in NEGATION_WORDS : Contains(text_lower, neg)

\* check_support_rule with the high-overlap rule (d) tried before the numeric rule (c)
check_support_rule_d_before_c(claim, evid) ==
    LET claim_lower    == lower(claim)
        evidence_lower == lower(evid)
        claim_terms    == Range(FindWords(claim_lower, 1))
        evidence_terms == Range(FindWords(evidence_lower, 1))
        overlap        == claim_terms \cap evidence_terms
        claim_has_negation    == has_negation(claim_lower)
        evidence_has_negation == has_negation(evidence_lower)
        evidence_prohibits    == \E p \in prohibitive_patterns : SearchWord(evidence_lower, p)
        claim_numbers    == FindDays(claim_lower, 1)
        evidence_numbers == FindDays(evidence_lower, 1)
    IN  IF evidence_prohibits /\ ~claim_has_negation /\ OverlapAtLeast(overlap, claim_terms, 3)
        THEN [label |-> "NOT_SUPPORTED", rule |-> "b"]
        ELSE IF OverlapAtLeast(overlap, claim_terms, 4)
        THEN IF claim_has_negation # evidence_has_negation
             THEN [label |-> "NOT_SUPPORTED", rule |-> "d"]
             ELSE [label |-> "SUPPORTED", rule |-> "d"]
        ELSE IF claim_numbers # <<>> /\ evidence_numbers # <<>>
                /\ claim_numbers[1] # evidence_numbers[1]
        THEN [label |-> "NOT_SUPPORTED", rule |-> "c"]
        ELSE IF _is_contradiction(claim_lower, evidence_lower)
        THEN [label |-> "NOT_SUPPORTED", rule |-> "e"]
        ELSE [label |-> "INSUFFICIENT", rule |-> "f"]

\* _check_support with the rule that returned: [label, rule]
check_support_rule(claim, evid) ==
    LET claim_lower    == lower(claim)
        evidence_lower == lower(evid)
        claim_terms    == Range(FindWords(claim_lower, 1))
        evidence_terms == Range(FindWords(evidence_lower, 1))
        overlap        == claim_terms \cap evidence_terms
        claim_has_negation    == has_negation(claim_lower)
        evidence_has_negation == has_negation(evidence_lower)
        evidence_prohibits    == \E p \in prohibitive_patterns : SearchWord(evidence_lower, p)
        claim_numbers    == FindDays(claim_lower, 1)
        evidence_numbers == FindDays(evidence_lower, 1)
    IN  IF evidence_prohibits /\ ~claim_has_negation /\ OverlapAtLeast(overlap, claim_terms, 3)
        THEN [label |-> "NOT_SUPPORTED", rule |-> "b"]
        ELSE IF claim_numbers # <<>> /\ evidence_numbers # <<>>
                /\ claim_numbers[1] # evidence_numbers[1]
        THEN [label |-> "NOT_SUPPORTED", rule |-> "c"]
        ELSE IF OverlapAtLeast(overlap, claim_terms, 4)
        THEN IF claim_has_negation # evidence_has_negation
             THEN [label |-> "NOT_SUPPORTED", rule |-> "d"]
             ELSE [label |-> "SUPPORTED", rule |-> "d"]
        ELSE IF _is_contradiction(claim_lower, evidence_lower)
        THEN [label |-> "NOT_SUPPORTED", rule |-> "e"]
        ELSE [label |-> "INSUFFICIENT", rule |-> "f"]

_check_support(claim, evid) == check_support_rule(claim, evid).label

-----------------------------------------------------------------------------
(* BM25Retriever.search.                                                   *)

\* sorted_by_score as an ascending sort read backwards: equal scores come out in the
\* reverse of their order in seq
sorted_by_score_reversed_ties(seq) ==
    LET n == Len(seq)
        before(i) == {j \in 1..n : \/ seq[j].score > seq[i].score
                                   \/ seq[j].score = seq[i].score /\ j > i}
        place == [i \in 1..n |-> Cardinality(before(i)) + 1]
    IN  [k \in 1..n |-> seq[CHOOSE i \in 1..n : place[i] = k]]

\* sorted(seq, key=lambda x: x.score, reverse=True): Python's sort is stable, also
\* with reverse=True, so seq[i] comes behind every higher score and behind the
\* equal scores that stand before it in seq.
sorted_by_score(seq) ==
    LET n == Len(seq)
        before(i) == {j \in 1..n : \/ seq[j].score > seq[i].score
                                   \/ seq[j].score = seq[i].score /\ j < i}
        place == [i \in 1..n |-> Cardinality(before(i)) + 1]
    IN  [k \in 1..n |-> seq[CHOOSE i \in 1..n : place[i] = k]]

\* seq[:k] for k >= 0
Take(seq, k) == SubSeq(seq, 1, IF k < Len(seq) THEN k ELSE Len(seq))

\* search(query, top_k): the (line, score) pairs returned
search(ls, index, query, k) ==
    LET scores == index[query]
        scored_indices ==
            Take(sorted_by_score([i \in 1..Len(ls) |-> [idx |-> i, score |-> scores[i]]]), k)
        kept == SelectSeq(scored_indices, LAMBDA x : x.score > 0)
    IN  [j \in 1..Len(kept) |-> [line |-> ls[kept[j].idx], score |-> kept[j].score]]

-----------------------------------------------------------------------------
(* ClaimVerifier.verify_claim.                                             *)

SUPPORT_THRESHOLD == 3000

TOP_K == 10

\* round(score, 2) on thousandths; no score of the model ends in 5
round2(score) == LET r == score % 10 IN IF r < 5 THEN score - r ELSE score - r + 10

\* f"{question} {claim}"
make_query(q, claim) == q \o " " \o claim

RetrievalCandidate(hit) ==
    [doc_id |-> hit.line.doc_id, score |-> round2(hit.score), location |-> hit.line.line_num]

Evidence(line) == [doc_id |-> line.doc_id, location |-> line.line_num, snippet |-> line.content]

\* the for loop without its break statements: the last decisive candidate wins
RECURSIVE scan_all(_, _, _, _, _)
scan_all(claim, candidates, j, seen, found) ==
    IF j > Len(candidates)
    THEN [label |-> found.label, evidence |-> found.evidence, classified |-> seen]
    ELSE IF candidates[j].score < SUPPORT_THRESHOLD
    THEN scan_all(claim, candidates, j + 1, seen, found)
    ELSE LET support_type == _check_support(claim, candidates[j].line.content)
         IN  IF support_type \in {"SUPPORTED", "NOT_SUPPORTED"}
             THEN scan_all(claim, candidates, j + 1, Append(seen, j),
                           [label |-> support_type,
                            evidence |-> <<Evidence(candidates[j].line)>>])
             ELSE scan_all(claim, candidates, j + 1, Append(seen, j), found)

scan_candidates_no_break(claim, candidates, j, seen) ==
    scan_all(claim, candidates, j, seen, [label |-> "INSUFFICIENT", evidence |-> <<>>])

\* the for loop with the floor applied to the rounded score of the log
RECURSIVE scan_candidates_rounded_floor(_, _, _, _)
scan_candidates_rounded_floor(claim, candidates, j, seen) ==
    IF j > Len(candidates)
    THEN [label |-> "INSUFFICIENT", evidence |-> <<>>, classified |-> seen]
    ELSE IF round2(candidates[j].score) < SUPPORT_THRESHOLD
    THEN scan_candidates_rounded_floor(claim, candidates, j + 1, seen)
    ELSE LET support_type == _check_support(claim, candidates[j].line.content)
         IN  IF support_type \in {"SUPPORTED", "NOT_SUPPORTED"}
             THEN [label |-> support_type,
                   evidence |-> <<Evidence(candidates[j].line)>>,
                   classified |-> Append(seen, j)]
             ELSE scan_candidates_rounded_floor(claim, candidates, j + 1, Append(seen, j))

\* the for loop of verify_claim from rank j on; seen are the ranks classified so far
RECURSIVE scan_candidates(_, _, _, _)
scan_candidates(claim, candidates, j, seen) ==
    IF j > Len(candidates)
    THEN [label |-> "INSUFFICIENT", evidence |-> <<>>, classified |-> seen]
    ELSE IF candidates[j].score < SUPPORT_THRESHOLD
    THEN scan_candidates(claim, candidates, j + 1, seen)
    ELSE LET support_type == _check_support(claim, candidates[j].line.content)
         IN  IF support_type \in {"SUPPORTED", "NOT_SUPPORTED"}
             THEN [label |-> support_type,
                   evidence |-> <<Evidence(candidates[j].line)>>,
                   classified |-> Append(seen, j)]
             ELSE scan_candidates(claim, candidates, j + 1, Append(seen, j))

\* verify_claim that appends the Evidence in the SUPPORTED branch only
verify_claim_drops_evidence(ls, index, claim, q) ==
    LET candidates == search(ls, index, make_query(q, claim), TOP_K)
        found == scan_candidates(claim, candidates, 1, <<>>)
    IN  [result     |-> [claim |-> claim, label |-> found.label,
                         evidence |-> IF found.label = "SUPPORTED" THEN found.evidence ELSE <<>>],
         candidates |-> [j \in 1..Len(candidates) |-> RetrievalCandidate(candidates[j])],
         hits       |-> candidates,
         classified |-> found.classified]

\* verify_claim(claim, question): result and candidates are the returned pair; hits is
\* what search returned and classified the ranks handed to _check_support
verify_claim(ls, index, claim, q) ==
    LET candidates == search(ls, index, make_query(q, claim), TOP_K)
        found == scan_candidates(claim, candidates, 1, <<>>)
    IN  [result     |-> [claim |-> claim, label |-> found.label, evidence |-> found.evidence],
         candidates |-> [j \in 1..Len(candidates) |-> RetrievalCandidate(candidates[j])],
         hits       |-> candidates,
         classified |-> found.classified]

-----------------------------------------------------------------------------
(* PackGenerator.generate_pack.                                            *)

NO_ANSWER == "Insufficient evidence to provide a definitive answer."

\* sep.join(strs)
RECURSIVE join(_, _)
join(sep, strs) ==
    IF strs = <<>> THEN ""
    ELSE IF Len(strs) = 1 THEN strs[1]
    ELSE strs[1] \o sep \o join(sep, Tail(strs))

\* the seen / unique_candidates loop: the first candidate of every (doc_id, location)
RECURSIVE dedup(_, _, _)
dedup(cands, seen, unique) ==
    IF cands = <<>> THEN unique
    ELSE LET c   == Head(cands)
             key == <<c.doc_id, c.location>>
         IN  IF key \in seen THEN dedup(Tail(cands), seen, unique)
             ELSE dedup(Tail(cands), seen \cup {key}, Append(unique, c))

RECURSIVE concat_all(_)
concat_all(seqs) == IF seqs = <<>> THEN <<>> ELSE Head(seqs) \o concat_all(Tail(seqs))

\* make_answer that takes every claim with evidence for a supported one
make_answer_any_verdict(claim_results) ==
    LET supported_claims == SelectSeq(claim_results, LAMBDA r : r.label # "INSUFFICIENT")
    IN  IF supported_claims # <<>>
        THEN join("; ", [k \in 1..Len(supported_claims) |-> supported_claims[k].claim])
        ELSE NO_ANSWER

make_answer(claim_results) ==
    LET supported_claims == SelectSeq(claim_results, LAMBDA r : r.label = "SUPPORTED")
    IN  IF supported_claims # <<>>
        THEN join("; ", [k \in 1..Len(supported_claims) |-> supported_claims[k].claim])
        ELSE NO_ANSWER

\* make_retrieval_log that deduplicates in pool order and sorts afterwards
make_retrieval_log_dedup_first(all_candidates) ==
    LET unique_candidates == sorted_by_score(dedup(all_candidates, {}, <<>>))
    IN  [top_k |-> 10, candidates |-> Take(unique_candidates, 10)]

make_retrieval_log(all_candidates) ==
    LET unique_candidates == dedup(sorted_by_score(all_candidates), {}, <<>>)
    IN  [top_k |-> 10, candidates |-> Take(unique_candidates, 10)]

\* generate_pack(qid, question, claims): verified[k] is verify_claim of claims[k]
generate_pack(id, q, verified) ==
    LET claim_results  == [k \in 1..Len(verified) |-> verified[k].result]
        all_candidates == concat_all([k \in 1..Len(verified) |-> verified[k].candidates])
    IN  [qid           |-> id,
         answer        |-> make_answer(claim_results),
         claims        |-> claim_results,
         retrieval_log |-> make_retrieval_log(all_candidates)]

-----------------------------------------------------------------------------
(* Inputs.                                                                 *)

NumLines       == 11   \* lines of the corpus of verify_claim and generate_pack
LinesPerDoc    == 4    \* lines per document of that corpus
MaxClaims      == 2    \* claims per question
MaxSearchLines == 4    \* lines of the corpus of a search call
MaxTopK        == 5    \* top_k of a search call

CorpusTexts ==
    << "Appeals must be filed within 3 days",
       "Employees must not cite prior decisions in filings",
       "Appeals must be filed within 7 working days",
       "Employees may cite prior decisions",
       "Late filings are prohibited",
       "Reports must be submitted within 10 days" >>

Digit(d) == Char(DigitChars, d + 1)

\* what DocumentLoader.load_all leaves in all_lines: n lines, LinesPerDoc per document,
\* each (doc_id, line_num) once, the same line_num in several documents
Corpus(n) ==
    [i \in 1..n |->
        [doc_id   |-> "doc" \o Digit(((i - 1) \div LinesPerDoc + 1) \div 10)
                            \o Digit(((i - 1) \div LinesPerDoc + 1) % 10),
         line_num |-> "L0" \o Digit((((i - 1) % LinesPerDoc) + 1) \div 10)
                           \o Digit((((i - 1) % LinesPerDoc) + 1) % 10),
         content  |-> CorpusTexts[((i - 1) % Len(CorpusTexts)) + 1]]]

\* scores get_scores may return, in thousandths
ScoreLevels == <<7251, 4500, 3004, 3000, 2996, 1204, 0, -1204>>

ScoreVector(a, b, n) ==
    [i \in 1..n |-> ScoreLevels[((a * i + b) % Len(ScoreLevels)) + 1]]

\* two lines stand out, every other line scores base
PeakVector(i1, i2, base, n) ==
    [i \in 1..n |-> IF i = i1 THEN 7251 ELSE IF i = i2 THEN 4500 ELSE base]

VerifyScores(n) ==
    {ScoreVector(a, b, n) : a \in {0, 1, 3}, b \in 0..(Len(ScoreLevels) - 1)}
    \cup {PeakVector(i1, ((i1 + d - 1) % n) + 1, base, n) :
             i1 \in 1..n, d \in 1..3, base \in {3000, 1204}}


PackScores(n) == {ScoreVector(0, 1, n), ScoreVector(1, 0, n), ScoreVector(3, 4, n),
                  PeakVector(3, 4, 1204, n)}

SearchScores(n) == [1..n -> {4500, 2996, 0, -1204}]

Questions == {"What is the deadline for appeals?"}

VerifyClaims ==
    { "Appeals must be filed within 7 days",
      "Employees may cite prior decisions",
      "Filings are allowed",
      "Weather is sunny",
      "",
      "?!" }

PackClaims ==
    { "Appeals must be filed within 7 days",
      "Employees may cite prior decisions",
      "" }

ClassifyClaims ==
    { "Appeals must be filed within 7 days",
      "Appeals must be filed within 07 days",
      "Employees may cite prior decisions",
      "Employees may cite known decisions",
      "Employees must not cite prior decisions",
      "Staff may never cite 3 day notices",
      "Reports must be submitted within 5 days",
      "Forms can be filed within 10 working days",
      "Late filings are allowed",
      "A signature is required",
      "",
      "?!" }

ClassifyEvidence ==
    { "Appeals must be filed within 3 days",
      "Appeals must be filed within 7 days",
      "Appeals must be filed within 7 working days of the notice",
      "Employees must not cite prior decisions in filings",
      "Employees must not cite known decisions",
      "Employees may cite prior decisions",
      "Do NOT cite prior decisions after 3 days",
      "Reports must be submitted by day 12 or within 5 days",
      "Forms cannot  be filed late",
      "Late filings are prohibited",
      "A signature is not required",
      "Staff notices are noted" }

SeqsUpTo(S, n) == UNION {[1..k -> S] : k \in 0..n}

-----------------------------------------------------------------------------
(* _check_support as an operation: SpecClassify.                           *)

InitClassify ==
    /\ pc = "start"
    /\ claims \in {<<c>> : c \in ClassifyClaims}
    /\ evidence \in ClassifyEvidence
    /\ lines = <<>> /\ question = NoValue /\ bm25 = NoValue /\ qid = NoValue
    /\ top_k = 0 /\ output = NoValue /\ trace = <<>>

Classify ==
    /\ pc = "start"
    /\ pc' = "classified"
    /\ output' = _check_support(claims[1], evidence)
    /\ trace' = <<check_support_rule(claims[1], evidence).rule>>
    /\ UNCHANGED <<lines, question, claims, evidence, bm25, qid, top_k>>

NextClassify == Classify

SpecClassify == InitClassify /\ [][NextClassify]_vars

-----------------------------------------------------------------------------
(* BM25Retriever.search as an operation: SpecSearch.                       *)

InitSearch ==
    /\ pc = "start"
    /\ \E n \in 1..MaxSearchLines :
          /\ lines = Corpus(n)
          /\ question \in Questions
          /\ bm25 \in [{question} -> SearchScores(n)]
    /\ top_k \in 0..MaxTopK
    /\ claims = <<>> /\ evidence = NoValue /\ qid = NoValue
    /\ output = NoValue /\ trace = <<>>

Search ==
    /\ pc = "start"
    /\ pc' = "searched"
    /\ output' = search(lines, bm25, question, top_k)
    /\ UNCHANGED <<lines, question, claims, evidence, bm25, qid, top_k, trace>>

NextSearch == Search

SpecSearch == InitSearch /\ [][NextSearch]_vars

-----------------------------------------------------------------------------
(* ClaimVerifier.verify_claim as an operation: SpecVerify.                 *)

InitVerify ==
    /\ pc = "start"
    /\ lines = Corpus(NumLines)
    /\ question \in Questions
    /\ claims \in {<<c>> : c \in VerifyClaims}
    /\ bm25 \in [{make_query(question, claims[1])} -> VerifyScores(NumLines)]
    /\ evidence = NoValue /\ qid = NoValue /\ top_k = TOP_K
    /\ output = NoValue /\ trace = <<>>

VerifyClaim ==
    /\ pc = "start"
    /\ pc' = "verified"
    /\ \E r \in {verify_claim(lines, bm25, claims[1], question)} :
           /\ output' = <<r.result, r.candidates>>
           /\ trace' = <<r>>
    /\ UNCHANGED <<lines, question, claims, evidence, bm25, qid, top_k>>

NextVerify == VerifyClaim

SpecVerify == InitVerify /\ [][NextVerify]_vars

-----------------------------------------------------------------------------
(* main's call of generate_pack for one question: Spec.                    *)

Init ==
    /\ pc = "start"
    /\ lines = Corpus(NumLines)
    /\ qid = "q1"
    /\ question \in Questions
    /\ claims \in SeqsUpTo(PackClaims, MaxClaims)
    /\ bm25 \in [{make_query(question, c) : c \in Range(claims)} -> PackScores(NumLines)]
    /\ evidence = NoValue /\ top_k = TOP_K
    /\ output = NoValue /\ trace = <<>>

GeneratePack ==
    /\ pc = "start"
    /\ pc' = "packed"
    /\ \E verified \in {[k \in 1..Len(claims) |->
                              verify_claim(lines, bm25, claims[k], question)]} :
           /\ output' = generate_pack(qid, question, verified)
           /\ trace' = verified
    /\ UNCHANGED <<lines, question, claims, evidence, bm25, qid, top_k>>

Next == GeneratePack

Spec == Init /\ [][Next]_vars

-----------------------------------------------------------------------------
(* Properties of verify_claim, under SpecVerify.                           *)

Labels == {"SUPPORTED", "NOT_SUPPORTED", "INSUFFICIENT"}

Decisive == {"SUPPORTED", "NOT_SUPPORTED"}

Verified == pc = "verified"

\* the ClaimResult verify_claim returned, the claim it was called on, what search returned
Result   == output[1]
TheClaim == claims[1]
Hits     == trace[1].hits

\* how rank j of the search result classifies against the claim
ClassOf(j) == _check_support(TheClaim, Hits[j].line.content)

\* the ranks at or above the floor of 3.0 whose line is decisive for the claim
DecisiveRanks == {j \in 1..Len(Hits) : Hits[j].score >= 3000 /\ ClassOf(j) \in Decisive}

FirstDecisive == CHOOSE j \in DecisiveRanks : \A k \in DecisiveRanks : j <= k

CopyOf(line) == [doc_id |-> line.doc_id, location |-> line.line_num, snippet |-> line.content]

\* C1: the label verify_claim returns is SUPPORTED, NOT_SUPPORTED or INSUFFICIENT; the
\* evidence list is empty exactly when the label is INSUFFICIENT and holds exactly one
\* Evidence when the label is SUPPORTED or NOT_SUPPORTED.
C1_ResultExclusivity ==
    Verified =>
        /\ Result.label \in Labels
        /\ (Result.evidence = <<>>) <=> (Result.label = "INSUFFICIENT")
        /\ Result.label \in Decisive => Len(Result.evidence) = 1

C1_Witness ==
    /\ Verified
    /\ Result.label = "NOT_SUPPORTED"
    /\ Len(Result.evidence) = 1

\* C2: the candidates are scanned in rank order and the first one at or above the floor
\* that classifies SUPPORTED or NOT_SUPPORTED fixes the result: the label is its
\* classification, the one Evidence is its line, and no candidate behind it is
\* classified; with no such candidate the label is INSUFFICIENT with no evidence.
C2_FirstDecisiveWins ==
    Verified =>
        /\ \A a, b \in 1..Len(trace[1].classified) :
               a < b => trace[1].classified[a] < trace[1].classified[b]
        /\ IF DecisiveRanks = {}
           THEN /\ Result.label = "INSUFFICIENT"
                /\ Result.evidence = <<>>
           ELSE /\ Result.label = ClassOf(FirstDecisive)
                /\ Result.evidence = <<CopyOf(Hits[FirstDecisive].line)>>
                /\ \A j \in Range(trace[1].classified) : j <= FirstDecisive

\* rank 1 is above the floor and classifies NOT_SUPPORTED, rank 2 would classify
\* SUPPORTED: the result is NOT_SUPPORTED with the line of rank 1
C2_Witness ==
    /\ Verified
    /\ Len(Hits) >= 2
    /\ Hits[1].score >= 3000 /\ ClassOf(1) = "NOT_SUPPORTED"
    /\ Hits[2].score >= 3000 /\ ClassOf(2) = "SUPPORTED"
    /\ Result.label = "NOT_SUPPORTED"
    /\ Result.evidence = <<CopyOf(Hits[1].line)>>

\* C3: every Evidence is a copy (doc_id, location, snippet) of a line search returned
\* for the claim's query with a score of at least 3.0, and no returned line with a
\* score below 3.0 is classified or cited.
C3_ScoreFloor ==
    Verified =>
        /\ \A e \in Range(Result.evidence) :
               \E j \in 1..Len(Hits) : Hits[j].score >= 3000 /\ e = CopyOf(Hits[j].line)
        /\ \A j \in 1..Len(Hits) :
               Hits[j].score < 3000 =>
                   /\ j \notin Range(trace[1].classified)
                   /\ \A e \in Range(Result.evidence) :
                          <<e.doc_id, e.location>> # <<Hits[j].line.doc_id, Hits[j].line.line_num>>

\* a line below the floor that would have decided the claim was returned, and the
\* result is INSUFFICIENT
C3_Witness ==
    /\ Verified
    /\ \E j \in 1..Len(Hits) : Hits[j].score < 3000 /\ ClassOf(j) \in Decisive
    /\ \E j \in 1..Len(Hits) : Hits[j].score >= 3000
    /\ Result.label = "INSUFFICIENT"

\* C9: a claim without tokens is verified INSUFFICIENT with no evidence, whatever the
\* question retrieves, also when candidates at or above the floor are classified.
C9_NoTokenClaim ==
    (Verified /\ _tokenize(TheClaim) = <<>>) =>
        /\ Result.claim = TheClaim
        /\ Result.label = "INSUFFICIENT"
        /\ Result.evidence = <<>>

C9_Witness ==
    /\ Verified
    /\ _tokenize(TheClaim) = <<>>
    /\ TheClaim # ""
    /\ \E j \in 1..Len(Hits) : Hits[j].score >= 3000 /\ j \in Range(trace[1].classified)
    /\ Result.label = "INSUFFICIENT"

-----------------------------------------------------------------------------
(* Properties of generate_pack, under Spec.                                *)

Packed == pc = "packed"

\* everything the claims of the question logged: the candidates of every verify_claim
Pool == UNION {Range(trace[k].candidates) : k \in 1..Len(trace)}

KeyOf(c) == <<c.doc_id, c.location>>

PoolKeys == {KeyOf(c) : c \in Pool}

\* the highest score any claim logged for the key
BestScore(key) ==
    CHOOSE x \in {c.score : c \in {d \in Pool : KeyOf(d) = key}} :
        \A c \in Pool : KeyOf(c) = key => c.score <= x

Logged == output.retrieval_log.candidates

\* C6: retrieval_log.candidates holds each (doc_id, location) at most once, with the
\* highest score any claim of the question logged for it, in non-increasing score
\* order; it has at most 10 entries, the highest-scoring keys of the pool (every key
\* left out scores no higher than any entry, and none is left out while there is room);
\* retrieval_log.top_k is 10.
C6_RetrievalLog ==
    Packed =>
        /\ output.retrieval_log.top_k = 10
        /\ Len(Logged) <= 10
        /\ \A a, b \in 1..Len(Logged) : a < b =>
               /\ KeyOf(Logged[a]) # KeyOf(Logged[b])
               /\ Logged[a].score >= Logged[b].score
        /\ \A a \in 1..Len(Logged) :
               /\ KeyOf(Logged[a]) \in PoolKeys
               /\ Logged[a].score = BestScore(KeyOf(Logged[a]))
        /\ \A key \in PoolKeys \ {KeyOf(c) : c \in Range(Logged)} :
               /\ Len(Logged) = 10
               /\ \A a \in 1..Len(Logged) : BestScore(key) <= Logged[a].score

\* two claims logged the same line with different scores, and the pool holds more than
\* 10 lines
C6_Witness ==
    /\ Packed
    /\ \E c, d \in Pool : KeyOf(c) = KeyOf(d) /\ c.score # d.score
    /\ Cardinality(PoolKeys) > 10
    /\ Len(Logged) = 10

\* the answer built from the first k claims of the pack, "" when none is SUPPORTED
RECURSIVE AnswerUpTo(_)
AnswerUpTo(k) ==
    IF k = 0 THEN ""
    ELSE IF output.claims[k].label # "SUPPORTED" THEN AnswerUpTo(k - 1)
    ELSE IF \E j \in 1..(k - 1) : output.claims[j].label = "SUPPORTED"
         THEN AnswerUpTo(k - 1) \o "; " \o claims[k]
         ELSE claims[k]

\* C7: the answer is the texts of the SUPPORTED claims joined with "; " in the order of
\* the claims argument; with no SUPPORTED claim, also for no claims at all (the pack's
\* claims list is then empty), it is the sentinel sentence.
C7_Answer ==
    Packed =>
        /\ Len(output.claims) = Len(claims)
        /\ \A k \in 1..Len(claims) :
               /\ output.claims[k].claim = claims[k]
               /\ output.claims[k].label = trace[k].result.label
        /\ IF \E k \in 1..Len(claims) : output.claims[k].label = "SUPPORTED"
           THEN output.answer = AnswerUpTo(Len(claims))
           ELSE output.answer = "Insufficient evidence to provide a definitive answer."
        /\ claims = <<>> => output.claims = <<>>

\* a claim that is not SUPPORTED stands between two SUPPORTED ones, or two SUPPORTED
\* claims follow one another
C7_Witness ==
    /\ Packed
    /\ \E j, k \in 1..Len(claims) :
           /\ j < k
           /\ output.claims[j].label = "SUPPORTED"
           /\ output.claims[k].label = "SUPPORTED"
           /\ claims[j] # claims[k]
    /\ output.answer = AnswerUpTo(Len(claims))

-----------------------------------------------------------------------------
(* Properties of search, under SpecSearch.                                 *)

Searched == pc = "searched"

TheScores == bm25[question]

\* line i stands before line j in the ranking: a higher score, or the same score and
\* earlier in the corpus
RanksBefore(i, j) ==
    \/ TheScores[i] > TheScores[j]
    \/ TheScores[i] = TheScores[j] /\ i < j

\* the top_k highest-ranked lines of the corpus
TopRanked == {i \in 1..Len(lines) :
                 Cardinality({j \in 1..Len(lines) : RanksBefore(j, i)}) < top_k}

IndexOfLine(line) == CHOOSE i \in 1..Len(lines) : lines[i] = line

\* C8: search returns at most top_k pairs, each with a score above 0, in
\* non-increasing score order with equal scores in corpus order; the lines are the
\* top_k highest-ranked lines of the corpus without those whose score is not positive.
C8_Search ==
    Searched =>
        /\ Len(output) <= top_k
        /\ \A j \in 1..Len(output) :
               /\ output[j].score > 0
               /\ output[j].line \in Range(lines)
               /\ output[j].score = TheScores[IndexOfLine(output[j].line)]
        /\ \A a, b \in 1..Len(output) : a < b =>
               RanksBefore(IndexOfLine(output[a].line), IndexOfLine(output[b].line))
        /\ {IndexOfLine(output[j].line) : j \in 1..Len(output)}
               = {i \in TopRanked : TheScores[i] > 0}

\* the corpus has more than top_k lines, two returned lines score the same, and a line
\* of the top_k was dropped for a score that is not positive
C8_Witness ==
    /\ Searched
    /\ top_k < Len(lines)
    /\ \E a, b \in 1..Len(output) : a < b /\ output[a].score = output[b].score
    /\ Len(output) < top_k

-----------------------------------------------------------------------------
(* Properties of _check_support, under SpecClassify.                       *)

Classified == pc = "classified"

ClaimText == lower(claims[1])
EvidText  == lower(evidence)

ClaimWords == Range(_tokenize(claims[1]))
EvidWords  == Range(_tokenize(evidence))

\* overlap_ratio >= tenths / 10
OverlapTenths(tenths) ==
    /\ ClaimWords # {}
    /\ 10 * Cardinality(ClaimWords \cap EvidWords) >= tenths * Cardinality(ClaimWords)

\* the evidence contains a prohibitive phrase
EvidProhibits ==
    \E p \in {"do not", "must not", "should not", "prohibited", "never", "cannot"} :
        SearchWord(EvidText, p)

\* a negation word is a word of the claim, or the claim has one of the two phrases
ClaimHasNegationWord ==
    \/ ClaimWords \cap {"not", "never", "no", "cannot", "prohibited"} # {}
    \/ SearchWord(ClaimText, "must not")
    \/ SearchWord(ClaimText, "should not")

\* claim_negated and evidence_negated as rule (d) reads them: a negation word occurs in
\* the text
NegationIn(text) ==
    \E neg \in {"not", "never", "no", "cannot", "prohibited", "must not", "should not"} :
        Contains(text, neg)

ClaimDays == FindDays(ClaimText, 1)
EvidDays  == FindDays(EvidText, 1)

DigitValue(c) == (CHOOSE i \in 1..Len(DigitChars) : Char(DigitChars, i) = c) - 1

\* the integer a string of digits writes
RECURSIVE IntOf(_)
IntOf(digits) ==
    IF digits = "" THEN 0
    ELSE 10 * IntOf(SubSeq(digits, 1, Len(digits) - 1)) + DigitValue(Char(digits, Len(digits)))

\* the conditions of rule (b) and of rule (c)
RuleB == EvidProhibits /\ ~NegationIn(ClaimText) /\ OverlapTenths(3)
RuleC == ClaimDays # <<>> /\ EvidDays # <<>> /\ ClaimDays[1] # EvidDays[1]

\* C4: evidence with a prohibitive phrase, a claim none of whose words is a negation
\* word (and without the phrases must not / should not), and at least 30% of the
\* claim's tokens in the evidence: the verdict is NOT_SUPPORTED.
C4_ProhibitionOverride ==
    (Classified /\ EvidProhibits /\ ~ClaimHasNegationWord /\ OverlapTenths(3))
        => output = "NOT_SUPPORTED"

\* C5: claim and evidence both name a day count: the verdict is NOT_SUPPORTED when the
\* first counts differ, and rule (c) does not return NOT_SUPPORTED when the first
\* counts are the same integer.
C5_NumericMismatch ==
    (Classified /\ ClaimDays # <<>> /\ EvidDays # <<>>) =>
        /\ IntOf(ClaimDays[1]) # IntOf(EvidDays[1]) => output = "NOT_SUPPORTED"
        /\ IntOf(ClaimDays[1]) = IntOf(EvidDays[1]) => trace[1] # "c"

\* C10: the verdict is SUPPORTED only with an overlap ratio of at least 0.4, equal
\* negation polarity of claim and evidence, and neither the condition of rule (b) nor
\* that of rule (c); and when neither holds and the overlap ratio is at least 0.4, rule
\* (d) returns NOT_SUPPORTED for different polarities and SUPPORTED otherwise, rule (e)
\* not being consulted.
C10_HighOverlapRule ==
    Classified =>
        /\ output = "SUPPORTED" =>
               /\ OverlapTenths(4)
               /\ NegationIn(ClaimText) = NegationIn(EvidText)
               /\ ~RuleB
               /\ ~RuleC
        /\ (~RuleB /\ ~RuleC /\ OverlapTenths(4)) =>
               /\ output = IF NegationIn(ClaimText) # NegationIn(EvidText)
                           THEN "NOT_SUPPORTED" ELSE "SUPPORTED"
               /\ trace[1] = "d"

\* rule (d) decides against a claim whose polarity differs from the evidence's
C10_Witness ==
    /\ Classified
    /\ ~RuleB /\ ~RuleC /\ OverlapTenths(4)
    /\ NegationIn(ClaimText) # NegationIn(EvidText)
    /\ output = "NOT_SUPPORTED"

====
